---- MODULE Spec2Model ----
(***************************************************************************)
(* The request gate of the OpenClaw dashboard (src/middleware.js): an      *)
(* in-memory fixed-window rate limiter keyed by client address, followed   *)
(* by a shared-secret API key check on a list of protected route prefixes. *)
(*                                                                         *)
(* Strings that the code inspects character by character (paths, route     *)
(* prefixes) are sequences of one-character strings.  Opaque strings       *)
(* (keys, addresses) are TLA+ strings; Null stands for null / undefined.   *)
(* Time is Date.now() in milliseconds, assumed non-decreasing.             *)
(***************************************************************************)
EXTENDS Integers, Sequences, FiniteSets, TLC

\* ------------------------------------------------------------------------
\* Program constants (src/middleware.js)
\* ------------------------------------------------------------------------

PROTECTED_ROUTES ==
    { <<"/","a","p","i","/","s","e","t","t","i","n","g","s">>,
      <<"/","a","p","i","/","t","o","k","e","n","s">>,
      <<"/","a","p","i","/","r","e","l","a","t","i","o","n","s","h","i","p","s">>,
      <<"/","a","p","i","/","g","o","a","l","s">>,
      <<"/","a","p","i","/","l","e","a","r","n","i","n","g">>,
      <<"/","a","p","i","/","w","o","r","k","f","l","o","w","s">>,
      <<"/","a","p","i","/","i","n","s","p","i","r","a","t","i","o","n">>,
      <<"/","a","p","i","/","b","o","u","n","t","i","e","s">>,
      <<"/","a","p","i","/","c","o","n","t","e","n","t">>,
      <<"/","a","p","i","/","s","c","h","e","d","u","l","e","s">>,
      <<"/","a","p","i","/","c","a","l","e","n","d","a","r">>,
      <<"/","a","p","i","/","m","e","m","o","r","y">> }

PUBLIC_ROUTES ==
    { <<"/","a","p","i","/","h","e","a","l","t","h">>,
      <<"/","a","p","i","/","s","e","t","u","p","/","s","t","a","t","u","s">> }

API_PREFIX == <<"/","a","p","i","/">>

RATE_LIMIT_WINDOW == 60000

RATE_LIMIT_MAX == 100

\* ------------------------------------------------------------------------
\* Bounds of the model
\* ------------------------------------------------------------------------

\* number of clock advances in one behaviour
MaxTicks == 3

\* gated requests of one identifier in one window beyond the ceiling
MaxOver == 3

\* requests in flight at once
MaxInFlight == 2

\* requests with a new forwarded address beyond the ceiling
MaxFresh == 3

\* requests that carry an address header, among requests that carry none
MaxAddressed == 2

\* lines of the server log in one behaviour
MaxLog == 2

\* characters of a memory file
MaxLen == 3

\* ------------------------------------------------------------------------
\* Values
\* ------------------------------------------------------------------------

\* null / undefined
Null == "<null>"

\* an absent header that the code would split: split() never yields an
\* empty array, so the empty sequence stands for "no such header"
NoHeader == << >>

\* JavaScript truthiness of a string-or-null value
Truthy(v) == v # Null /\ v # ""

\* a || b
OrElse(a, b) == IF Truthy(a) THEN a ELSE b

\* String.prototype.startsWith
StartsWith(s, prefix) ==
    /\ Len(prefix) <= Len(s)
    /\ SubSeq(s, 1, Len(prefix)) = prefix

\* ------------------------------------------------------------------------
\* State
\* ------------------------------------------------------------------------

VARIABLES
    rateLimitMap,   \* the module-level Map: identifier -> [timestamp, count]
    now,            \* Date.now()
    env,            \* process.env.DASHBOARD_API_KEY
    last,           \* the request handled last, and what the gate answered
    arrivals,       \* history: per identifier, gated requests since its last reset
    passLog,        \* history: per identifier, time -> requests that passed the
                    \*          rate limit at that time, over [now - window, now]
    firstReject,    \* history: per identifier, time of its earliest 429
    pendingReject,  \* history: per identifier, time of its earliest 429 since
                    \*          a request of it last passed the rate limit
    denied,         \* history: per identifier, 401 answers since its last reset
    startKey,       \* history: process.env.DASHBOARD_API_KEY when the process
                    \*          started
    ticks,          \* clock advances so far
    stack,          \* the in-flight request whose middleware call is on the
                    \* call stack, 0 when the event loop is idle
    frames,         \* per in-flight request: its position in middleware and
                    \* the locals `now` and `record` of checkRateLimit
    reply,          \* the call of a route's GET handled last: what was thrown
                    \* in it and the response it returned
    serverLog,      \* what console.error has written, oldest first
    files,          \* memory-diff: the two memory files as readMemoryFile
                    \* finds them
    report          \* memory-diff: what main() has printed, and its exit code

\* the state of the gate, and the state of the route handlers
gateVars == << rateLimitMap, now, env, last, arrivals, passLog, firstReject,
               pendingReject, denied, startKey, ticks, stack, frames >>

dataVars == << reply, serverLog >>

diffVars == << files, report >>

vars == << gateVars, dataVars, diffVars >>

\* ------------------------------------------------------------------------
\* checkRateLimit
\* ------------------------------------------------------------------------

\* Map.prototype.set
MapSet(map, key, value) ==
    [k \in DOMAIN map \cup {key} |-> IF k = key THEN value ELSE map[k]]

\* (variant) the window already counts as elapsed at exactly 60 s
WindowElapsedInclusive(map, t, ip) ==
    \/ ip \notin DOMAIN map
    \/ t - map[ip].timestamp >= RATE_LIMIT_WINDOW

\* the condition of the first `if`: no record, or the window has elapsed
WindowElapsed(map, t, ip) ==
    \/ ip \notin DOMAIN map
    \/ t - map[ip].timestamp > RATE_LIMIT_WINDOW

\* (variant) the ceiling is compared with > instead of >=
AtCeilingOffByOne(record) == record.count > RATE_LIMIT_MAX

\* the condition of the second `if`
AtCeiling(record) == record.count >= RATE_LIMIT_MAX

\* (variant) the ceiling is tested before the window, so a record at the
\* ceiling is never reset
checkRateLimitCeilingFirst(map, t, ip) ==
    IF ip \in DOMAIN map /\ AtCeiling(map[ip])
    THEN [ok |-> FALSE, map |-> map]
    ELSE IF WindowElapsed(map, t, ip)
    THEN [ok |-> TRUE, map |-> MapSet(map, ip, [timestamp |-> t, count |-> 1])]
    ELSE [ok |-> TRUE,
          map |-> MapSet(map, ip, [timestamp |-> map[ip].timestamp,
                                   count |-> map[ip].count + 1])]

\* (variant) a rejected request restarts the window of its record
checkRateLimitRejectRestarts(map, t, ip) ==
    IF WindowElapsed(map, t, ip)
    THEN [ok |-> TRUE, map |-> MapSet(map, ip, [timestamp |-> t, count |-> 1])]
    ELSE IF AtCeiling(map[ip])
    THEN [ok |-> FALSE,
          map |-> MapSet(map, ip, [timestamp |-> t, count |-> map[ip].count])]
    ELSE [ok |-> TRUE,
          map |-> MapSet(map, ip, [timestamp |-> map[ip].timestamp,
                                   count |-> map[ip].count + 1])]

\* (variant) the count is incremented before it is compared with the
\* ceiling, so a rejected request is counted too
checkRateLimitCountsRejects(map, t, ip) ==
    IF WindowElapsed(map, t, ip)
    THEN [ok |-> TRUE, map |-> MapSet(map, ip, [timestamp |-> t, count |-> 1])]
    ELSE [ok |-> ~AtCeiling(map[ip]),
          map |-> MapSet(map, ip, [timestamp |-> map[ip].timestamp,
                                   count |-> map[ip].count + 1])]

\* (variant) a reset also sweeps the records whose window has elapsed
checkRateLimitSweeps(map, t, ip) ==
    IF WindowElapsed(map, t, ip)
    THEN [ok |-> TRUE,
          map |-> MapSet([k \in { j \in DOMAIN map : ~WindowElapsed(map, t, j) }
                             |-> map[k]],
                         ip, [timestamp |-> t, count |-> 1])]
    ELSE IF AtCeiling(map[ip])
    THEN [ok |-> FALSE, map |-> map]
    ELSE [ok |-> TRUE,
          map |-> MapSet(map, ip, [timestamp |-> map[ip].timestamp,
                                   count |-> map[ip].count + 1])]

\* (variant) a reset replaces the whole Map by the record of the caller
checkRateLimitClearsOnReset(map, t, ip) ==
    IF WindowElapsed(map, t, ip)
    THEN [ok |-> TRUE, map |-> MapSet(<< >>, ip, [timestamp |-> t, count |-> 1])]
    ELSE IF AtCeiling(map[ip])
    THEN [ok |-> FALSE, map |-> map]
    ELSE [ok |-> TRUE,
          map |-> MapSet(map, ip, [timestamp |-> map[ip].timestamp,
                                   count |-> map[ip].count + 1])]

\* checkRateLimit(ip) at Date.now() = t: the value returned and the Map after
checkRateLimit(map, t, ip) ==
    IF WindowElapsed(map, t, ip)
    THEN [ok |-> TRUE, map |-> MapSet(map, ip, [timestamp |-> t, count |-> 1])]
    ELSE IF AtCeiling(map[ip])
    THEN [ok |-> FALSE, map |-> map]
    ELSE [ok |-> TRUE,
          map |-> MapSet(map, ip, [timestamp |-> map[ip].timestamp,
                                   count |-> map[ip].count + 1])]

\* ------------------------------------------------------------------------
\* middleware
\* ------------------------------------------------------------------------

SecurityHeaders ==
    { <<"X-Content-Type-Options", "nosniff">>,
      <<"X-Frame-Options", "DENY">>,
      <<"X-XSS-Protection", "1; mode=block">> }

\* NextResponse.next()
ResponseNext == [type |-> "next", status |-> 200, headers |-> {}, body |-> Null]

\* NextResponse.next() with the three security headers set
ResponseNextSecured == [ResponseNext EXCEPT !.headers = SecurityHeaders]

\* (variant) the 429 is built without its Retry-After header
ResponseRateLimitedNoHint ==
    [type |-> "json", status |-> 429, headers |-> {},
     body |-> "Rate limit exceeded. Please slow down."]

\* NextResponse.json({error: ...}, {status: 429, headers: {'Retry-After': '60'}})
ResponseRateLimited ==
    [type |-> "json", status |-> 429, headers |-> { <<"Retry-After", "60">> },
     body |-> "Rate limit exceeded. Please slow down."]

\* (variant) the 401 is built from a response that already has the headers
ResponseUnauthorizedSecured ==
    [type |-> "json", status |-> 401, headers |-> SecurityHeaders,
     body |-> "Unauthorized - Invalid or missing API key"]

\* NextResponse.json({error: ...}, {status: 401})
ResponseUnauthorized ==
    [type |-> "json", status |-> 401, headers |-> {},
     body |-> "Unauthorized - Invalid or missing API key"]

\* (variant) the API prefix is tested without its trailing slash
IsApiPathNoSlash(pathname) == StartsWith(pathname, <<"/","a","p","i">>)

IsApiPath(pathname) == StartsWith(pathname, API_PREFIX)

\* (variant) a public route is matched exactly, not as a prefix
IsPublicRouteExact(pathname) == pathname \in PUBLIC_ROUTES

IsPublicRoute(pathname) == \E route \in PUBLIC_ROUTES : StartsWith(pathname, route)

IsProtectedRoute(pathname) == \E route \in PROTECTED_ROUTES : StartsWith(pathname, route)

\* (variant) the last entry of x-forwarded-for (the nearest hop) is taken
ClientIpLastHop(request) ==
    OrElse(OrElse(IF request.xff = NoHeader THEN Null
                  ELSE request.xff[Len(request.xff)],
                  request.realIp),
           "unknown")

\* (variant) x-real-ip is preferred to x-forwarded-for
ClientIpRealIpFirst(request) ==
    OrElse(OrElse(request.realIp,
                  IF request.xff = NoHeader THEN Null ELSE request.xff[1]),
           "unknown")


\* the identifier: x-forwarded-for's first entry || x-real-ip || 'unknown'
ClientIp(request) ==
    OrElse(OrElse(IF request.xff = NoHeader THEN Null ELSE request.xff[1],
                  request.realIp),
           "unknown")

\* (variant) the api_key query parameter takes precedence over the header
SuppliedKeyQueryFirst(request) == OrElse(request.apiKeyQuery, request.apiKeyHeader)


\* the key supplied: x-api-key header || api_key query parameter
SuppliedKey(request) == OrElse(request.apiKeyHeader, request.apiKeyQuery)

\* (variant) only a key that is present is compared with the secret
AuthResponseAbsentKeyPasses(apiKey, expectedKey) ==
    IF ~Truthy(expectedKey) THEN ResponseNext
    ELSE IF Truthy(apiKey) /\ apiKey # expectedKey THEN ResponseUnauthorized
    ELSE ResponseNextSecured

\* (variant) only an undefined secret, not an empty one, counts as unset
AuthResponseUndefinedOnly(apiKey, expectedKey) ==
    IF expectedKey = Null THEN ResponseNext
    ELSE IF apiKey # expectedKey THEN ResponseUnauthorized
    ELSE ResponseNextSecured

\* the key check of a protected route that passed the rate limit
AuthResponse(apiKey, expectedKey) ==
    IF ~Truthy(expectedKey) THEN ResponseNext
    ELSE IF apiKey # expectedKey THEN ResponseUnauthorized
    ELSE ResponseNextSecured

\* (variant) the key of a protected route is checked before the rate limit,
\* so a request answered 401 never reaches checkRateLimit
middlewareAuthFirst(request, map, t, expectedKey) ==
    IF ~IsApiPath(request.pathname) \/ IsPublicRoute(request.pathname)
    THEN [response |-> ResponseNext, map |-> map, rate |-> "skipped", ip |-> Null]
    ELSE LET ip   == ClientIp(request)
             auth == IF IsProtectedRoute(request.pathname)
                     THEN AuthResponse(SuppliedKey(request), expectedKey)
                     ELSE ResponseNextSecured
             rl   == checkRateLimit(map, t, ip)
         IN  IF auth = ResponseUnauthorized
             THEN [response |-> auth, map |-> map, rate |-> "skipped", ip |-> ip]
             ELSE IF ~rl.ok
             THEN [response |-> ResponseRateLimited, map |-> rl.map,
                   rate |-> "limited", ip |-> ip]
             ELSE [response |-> auth, map |-> rl.map, rate |-> "passed", ip |-> ip]

\* middleware(request) with Map `map`, Date.now() = t and the configured key:
\* the response, the Map after, and what the rate limiter did
middleware(request, map, t, expectedKey) ==
    IF ~IsApiPath(request.pathname) \/ IsPublicRoute(request.pathname)
    THEN [response |-> ResponseNext, map |-> map, rate |-> "skipped", ip |-> Null]
    ELSE LET ip == ClientIp(request)
             rl == checkRateLimit(map, t, ip)
         IN  IF ~rl.ok
             THEN [response |-> ResponseRateLimited, map |-> rl.map,
                   rate |-> "limited", ip |-> ip]
             ELSE [response |-> IF IsProtectedRoute(request.pathname)
                                THEN AuthResponse(SuppliedKey(request), expectedKey)
                                ELSE ResponseNextSecured,
                   map |-> rl.map, rate |-> "passed", ip |-> ip]

\* ------------------------------------------------------------------------
\* The GET handlers of the data routes (src/app/api/*/route.js)
\* ------------------------------------------------------------------------

\* one name per handler: the route files, and the workflows and bounties
\* handlers that follow the inspiration handler
Routes ==
    { "goals", "schedules", "inspiration", "workflows", "calendar", "learning",
      "content", "relationships", "bounties" }

\* the routes whose handler reads the database
DataRoutes == Routes \ { "bounties" }

\* whether the file of the handler imports `neon`
ImportsNeon(route) == route # "bounties"

\* the `await sql` statements of the handler
Queries(route) ==
    CASE route = "goals"         -> 2
      [] route = "schedules"     -> 1
      [] route = "inspiration"   -> 1
      [] route = "workflows"     -> 3
      [] route = "calendar"      -> 1
      [] route = "learning"      -> 2
      [] route = "content"       -> 1
      [] route = "relationships" -> 2
      [] route = "bounties"      -> 0

\* the collections of the response body, in the order of their queries
Collections(route) ==
    CASE route = "goals"         -> << "goals" >>
      [] route = "schedules"     -> << "schedules" >>
      [] route = "inspiration"   -> << "ideas" >>
      [] route = "workflows"     -> << "workflows", "executions", "scheduledJobs" >>
      [] route = "calendar"      -> << "events" >>
      [] route = "learning"      -> << "decisions", "lessons" >>
      [] route = "content"       -> << "content" >>
      [] route = "relationships" -> << "contacts", "interactions" >>
      [] route = "bounties"      -> << "bounties", "cveResearch" >>

\* the first argument of console.error in the catch block
LogLabel(route) ==
    CASE route = "goals"         -> "Goals API error:"
      [] route = "schedules"     -> "Schedules API error:"
      [] route = "inspiration"   -> "Inspiration API error:"
      [] route = "workflows"     -> "Workflows API error:"
      [] route = "calendar"      -> "Calendar API error:"
      [] route = "learning"      -> "Learning API error:"
      [] route = "content"       -> "Content API error:"
      [] route = "relationships" -> "Relationships API error:"
      [] route = "bounties"      -> "Bounties API error:"

\* the `error` of the body returned by the catch block
ErrorMessage(route) ==
    CASE route = "goals"         -> "An error occurred while fetching goals data"
      [] route = "schedules"     -> "An error occurred while fetching schedules data"
      [] route = "inspiration"   -> "An error occurred while fetching inspiration data"
      [] route = "workflows"     -> "An error occurred while fetching workflow data"
      [] route = "calendar"      -> "An error occurred while fetching calendar data"
      [] route = "learning"      -> "An error occurred while fetching learning data"
      [] route = "content"       -> "An error occurred while fetching content data"
      [] route = "relationships" -> "An error occurred while fetching relationship data"
      [] route = "bounties"      -> "An error occurred while fetching bounty data"

\* what evaluating the unbound identifier `neon` throws
ReferenceError == "ReferenceError: neon is not defined"

\* new Date(t).toISOString(): the instant, as text
ToISOString(t) == [iso |-> t]

Range(seq) == { seq[i] : i \in DOMAIN seq }

\* the stats object of the bounties placeholder
BountyStats ==
    [totalAvailable |-> 0, totalEarned |-> 0, activeSubmissions |-> 0,
     successRate |-> 0, message |-> "Bounty tracking coming soon"]

\* (variant) the catch block passes error.message on to the caller
ErrorBodyWithDetail(route, error, t) ==
    [field \in { "error" } \cup Range(Collections(route))
               \cup (IF route = "calendar" THEN { "lastUpdated" } ELSE { "stats" })
       |-> IF field = "error" THEN error
           ELSE IF field = "lastUpdated" THEN ToISOString(t)
           ELSE << >>]

\* the body returned by the catch block: a fixed message, every collection
\* empty, and an empty stats object (calendar: a timestamp instead)
ErrorBody(route, error, t) ==
    [field \in { "error" } \cup Range(Collections(route))
               \cup (IF route = "calendar" THEN { "lastUpdated" } ELSE { "stats" })
       |-> IF field = "error" THEN ErrorMessage(route)
           ELSE IF field = "lastUpdated" THEN ToISOString(t)
           ELSE << >>]

\* the body returned at the end of the try block: the collections as read
\* (bounties: empty lists), the stats derived from them (here: their sizes;
\* calendar: `count`), and the timestamp
SuccessBody(route, db, t) ==
    LET names == Collections(route)
        rows(field) ==
            IF route = "bounties" THEN << >>
            ELSE db[CHOOSE i \in DOMAIN names : names[i] = field].rows
    IN  [field \in Range(names) \cup { "lastUpdated" }
                   \cup (IF route = "calendar" THEN { "count" } ELSE { "stats" })
           |-> IF field = "lastUpdated" THEN ToISOString(t)
               ELSE IF field = "count" THEN Len(db[1].rows)
               ELSE IF field = "stats"
               THEN IF route = "bounties" THEN BountyStats
                    ELSE [n \in Range(names) |-> Len(rows(n))]
               ELSE rows(field)]

\* the catch block: console.error(label, error), then the 500 response
Caught(route, error, t) ==
    [status |-> 500, body |-> ErrorBody(route, error, t), thrown |-> error,
     logged |-> << << LogLabel(route), error >> >>]

\* GET() of a route at time t, the database answering its queries with db:
\* `neon(...)` throws where neon is not imported, the first query that
\* fails throws its error, and everything thrown in `try` is caught
GET(route, db, t) ==
    IF ~ImportsNeon(route) THEN Caught(route, ReferenceError, t)
    ELSE LET failed == { i \in 1..Queries(route) : ~db[i].ok }
         IN  IF failed # {}
             THEN Caught(route,
                         db[CHOOSE i \in failed : \A j \in failed : i <= j].error, t)
             ELSE [status |-> 200, body |-> SuccessBody(route, db, t),
                   thrown |-> Null, logged |-> << >>]

\* ------------------------------------------------------------------------
\* memory-diff (src/unnamed/part_002)
\* ------------------------------------------------------------------------

\* the characters String.prototype.trim removes that occur in the files
Whitespace == { " ", "\t", "\r", "\n" }

\* the line is longer than this: formatSection shortens it
DISPLAY_MAX == 100

\* ... to this many characters, followed by '...'
DISPLAY_KEEP == 97

\* String.prototype.trim, on a string as the sequence of its characters
Trim(s) ==
    LET kept == { i \in 1..Len(s) : s[i] \notin Whitespace }
    IN  IF kept = {} THEN << >>
        ELSE SubSeq(s, CHOOSE i \in kept : \A j \in kept : i <= j,
                       CHOOSE i \in kept : \A j \in kept : i >= j)

\* content.split('\n')
RECURSIVE Split(_)
Split(content) ==
    LET breaks == { i \in 1..Len(content) : content[i] = "\n" }
    IN  IF breaks = {} THEN << content >>
        ELSE LET first == CHOOSE i \in breaks : \A j \in breaks : i <= j
             IN  << SubSeq(content, 1, first - 1) >>
                   \o Split(SubSeq(content, first + 1, Len(content)))

\* (variant) the lines are trimmed, not only filtered
getLinesTrimmed(content) ==
    LET lines == Split(content)
    IN  SelectSeq([i \in DOMAIN lines |-> Trim(lines[i])],
                  LAMBDA line : line # << >>)

\* getLines: the lines with a non-whitespace character, as they are
getLines(content) == SelectSeq(Split(content), LAMBDA line : Trim(line) # << >>)

\* new Set(array), spread again: the distinct elements in the order of their
\* first occurrence
RECURSIVE NewSet(_)
NewSet(array) ==
    IF array = << >> THEN << >>
    ELSE LET before == NewSet(SubSeq(array, 1, Len(array) - 1))
             x      == array[Len(array)]
         IN  IF x \in Range(before) THEN before ELSE Append(before, x)

diffMemory(oldContent, newContent) ==
    LET oldLines == NewSet(getLines(oldContent))
        newLines == NewSet(getLines(newContent))
    IN  [added   |-> SelectSeq(newLines, LAMBDA line : line \notin Range(oldLines)),
         removed |-> SelectSeq(oldLines, LAMBDA line : line \notin Range(newLines))]

\* formatSection: the lines as displayed under the title, nothing for no lines
formatSection(title, lines, prefix) ==
    IF lines = << >> THEN << >>
    ELSE << title >>
           \o [i \in DOMAIN lines |->
                 << prefix,
                    IF Len(lines[i]) > DISPLAY_MAX
                    THEN SubSeq(lines[i], 1, DISPLAY_KEEP) \o << ".", ".", "." >>
                    ELSE lines[i] >>]

\* no section, no count, no file content printed
Nothing == [headline |-> "", exit |-> 0, lines |-> 0, content |-> << >>,
            added |-> << >>, removed |-> << >>, sections |-> << >>]

\* main(), old and new being what readMemoryFile returned for the two dates
main(old, new) ==
    IF ~old.exists /\ ~new.exists
    THEN [Nothing EXCEPT !.headline = "No memory files found for either date.",
                         !.exit = 1]
    ELSE IF ~old.exists
    THEN [Nothing EXCEPT !.headline = "No memory file for the old date",
                         !.lines = Len(getLines(new.content)),
                         !.content = new.content]
    ELSE IF ~new.exists
    THEN [Nothing EXCEPT !.headline = "No memory file for the new date yet",
                         !.lines = Len(getLines(old.content))]
    ELSE LET diff == diffMemory(old.content, new.content)
         IN  IF Len(diff.added) = 0 /\ Len(diff.removed) = 0
             THEN [Nothing EXCEPT !.headline = "No changes"]
             ELSE [Nothing EXCEPT
                     !.headline = "Summary",
                     !.added = diff.added,
                     !.removed = diff.removed,
                     !.sections = << formatSection("ADDED", diff.added, "+"),
                                     formatSection("REMOVED", diff.removed, "-") >>]

\* ------------------------------------------------------------------------
\* Requests and the clock
\* ------------------------------------------------------------------------

PathApiBare == <<"/","a","p","i">>

PathHealth == <<"/","a","p","i","/","h","e","a","l","t","h">>

PathHealthz == <<"/","a","p","i","/","h","e","a","l","t","h","z">>

PathGoals == <<"/","a","p","i","/","g","o","a","l","s">>

PathAgents == <<"/","a","p","i","/","a","g","e","n","t","s">>

\* the secret configured in the examples, and a key that differs from it
Secret == "abc123"

WrongKey == "wrong"

\* (x-api-key header, api_key query parameter) as a request carries them
Credentials ==
    { <<Null, Null>>, <<Secret, Null>>, <<WrongKey, Null>>, <<Null, Secret>>,
      <<WrongKey, Secret>>, <<"", Secret>>, <<Null, WrongKey>>,
      <<Secret, WrongKey>> }

Request(pathname, xff, realIp, cred) ==
    [pathname |-> pathname, xff |-> xff, realIp |-> realIp,
     apiKeyHeader |-> cred[1], apiKeyQuery |-> cred[2]]

\* requests of one client on every kind of path with every kind of credential
AuthRequests ==
    { Request(p, <<"1.2.3.4">>, Null, c) :
        p \in { PathApiBare, PathHealthz, PathGoals, PathAgents },
        c \in Credentials }

\* requests of one client that differ in what the rate limiter does with them
RateRequests ==
    { Request(PathGoals, <<"1.2.3.4">>, Null, <<Secret, Null>>),
      Request(PathAgents, <<"1.2.3.4">>, Null, <<Null, Null>>),
      Request(PathHealth, <<"1.2.3.4">>, Null, <<Null, Null>>) }

\* requests of one client to a protected route, with a wrong and with the
\* right key
DenyRequests ==
    { Request(PathGoals, <<"1.2.3.4">>, Null, <<WrongKey, Null>>),
      Request(PathGoals, <<"1.2.3.4">>, Null, <<Secret, Null>>) }

\* the gated requests of two clients, one of them without address headers
PairRequests ==
    { Request(PathGoals, <<"1.2.3.4">>, Null, <<Secret, Null>>),
      Request(PathGoals, NoHeader, Null, <<Secret, Null>>) }

\* the gated request of one client
WindowRequests == { Request(PathGoals, <<"1.2.3.4">>, Null, <<Secret, Null>>) }

\* the n-th address a client puts first in its x-forwarded-for header
FreshAddress(n) == "10.0.0." \o ToString(n)

\* the requests of a client behind 9.9.9.9 that names FreshAddress(n)
FreshRequests(n) ==
    { Request(p, << FreshAddress(n) >>, "9.9.9.9", c) :
        p \in { PathGoals, PathAgents },
        c \in { <<Secret, Null>>, <<WrongKey, Null>> } }

\* x-forwarded-for as split(',') yields it: absent, empty, one entry, two
\* entries, an empty first entry
ForwardedHeaders ==
    { NoHeader, << "" >>, << "1.2.3.4" >>, << "1.2.3.4", " 5.6.7.8" >>,
      << "", "5.6.7.8" >> }

\* x-real-ip: absent, empty, an address
RealIpHeaders == { Null, "", "9.9.9.9" }

\* gated requests with every combination of the two address headers
HeaderRequests ==
    { Request(PathGoals, x, r, <<Secret, Null>>) :
        x \in ForwardedHeaders, r \in RealIpHeaders }

\* requests of one client to a protected route without a key, with the
\* secret of the examples and with another key
ConfigRequests ==
    { Request(PathGoals, <<"1.2.3.4">>, Null, c) :
        c \in { <<Null, Null>>, <<Secret, Null>>, <<WrongKey, Null>> } }

\* what the database can answer to a query: rows, or an error thrown
DbErrors == { "connection refused", "relation does not exist" }

RowSets == { << >>, << "row" >> }

QueryOutcomes ==
    { [ok |-> TRUE, rows |-> r, error |-> Null] : r \in RowSets }
    \cup { [ok |-> FALSE, rows |-> << >>, error |-> e] : e \in DbErrors }

\* the answers to the queries of one call of the route's handler
Databases(route) == [1..Queries(route) -> QueryOutcomes]

\* no handler has been called
NoReply == [route |-> Null, status |-> 0, body |-> << >>, thrown |-> Null]

\* the characters of the memory files
Chars == { "a", "b", " ", "\n" }

\* the contents of a memory file
Contents == UNION { [1..n -> Chars] : n \in 0..MaxLen }

\* readMemoryFile of a date without a file
NoFile == [exists |-> FALSE, content |-> << >>]

\* what readMemoryFile can return
MemoryFiles == { NoFile } \cup { [exists |-> TRUE, content |-> c] : c \in Contents }

\* main() has not run
NoReport == [Nothing EXCEPT !.headline = "not run", !.exit = -1]

\* values of DASHBOARD_API_KEY
EnvValues == { Null, "", Secret }

\* clock advances: up to the window's last millisecond, and just past it
Deltas == { RATE_LIMIT_WINDOW, RATE_LIMIT_WINDOW + 1 }

\* no time recorded
NoTime == -1

NoRequest == Request(<< >>, NoHeader, Null, <<Null, Null>>)

NoResponse == [type |-> "none", status |-> 0, headers |-> {}, body |-> Null]

NoRecord == [timestamp |-> NoTime, count |-> 0]

IdleFrame == [pc |-> "idle", request |-> NoRequest, t |-> NoTime, record |-> NoRecord]

\* ------------------------------------------------------------------------
\* History kept beside the program's state
\* ------------------------------------------------------------------------

\* f[k], or a default where f has no k
Get(f, k, default) == IF k \in DOMAIN f THEN f[k] ELSE default

RECURSIVE SumOver(_, _)
SumOver(f, S) ==
    IF S = {} THEN 0
    ELSE LET x == CHOOSE y \in S : TRUE IN f[x] + SumOver(f, S \ {x})

\* requests of identifier ip that passed the rate limit in [now - window, now]
RecentPasses(ip) ==
    LET log == Get(passLog, ip, << >>) IN SumOver(log, DOMAIN log)

\* the log without the entries older than the window at time t
Prune(log, t) ==
    [ip \in DOMAIN log |->
        [u \in { v \in DOMAIN log[ip] : v >= t - RATE_LIMIT_WINDOW } |-> log[ip][u]]]

\* ------------------------------------------------------------------------
\* Actions
\* ------------------------------------------------------------------------

\* the server process after start: an empty Map, no request handled, no
\* handler called, nothing logged
InitGate(envs) ==
    /\ rateLimitMap = << >>
    /\ now = 0
    /\ env \in envs
    /\ last = [request |-> NoRequest, response |-> NoResponse, rate |-> "none",
               ip |-> Null, time |-> NoTime, expectedKey |-> Null,
               seq |-> 0, before |-> NoRecord,
               retryOf |-> NoTime, rejectedAt |-> NoTime]
    /\ arrivals = << >>
    /\ passLog = << >>
    /\ firstReject = << >>
    /\ pendingReject = << >>
    /\ denied = << >>
    /\ startKey = env
    /\ ticks = 0
    /\ stack = 0
    /\ frames = [s \in 1..MaxInFlight |-> IdleFrame]
    /\ reply = NoReply
    /\ serverLog = << >>

\* the server process after start; memory-diff has not been run
InitWith(envs) ==
    /\ InitGate(envs)
    /\ files = [old |-> NoFile, new |-> NoFile]
    /\ report = NoReport

\* what a run of middleware(request) that read the clock at t leaves behind:
\* the Map as written, and the account of the request and its response
Record(request, out, t) ==
    LET ip    == out.ip
        gated == out.rate # "skipped"
        \* the record was (re)created by this request
        reset == out.rate = "passed" /\ out.map[ip].count = 1
        seq   == IF ~gated THEN 0
                 ELSE IF reset THEN 1 ELSE Get(arrivals, ip, 0) + 1
    IN  /\ seq <= RATE_LIMIT_MAX + MaxOver
        /\ rateLimitMap' = out.map
        /\ last' = [request |-> request, response |-> out.response,
                    rate |-> out.rate, ip |-> ip, time |-> t,
                    expectedKey |-> env, seq |-> seq,
                    before |-> Get(rateLimitMap, ClientIp(request), NoRecord),
                    retryOf |-> IF gated THEN Get(pendingReject, ip, NoTime)
                                ELSE NoTime,
                    rejectedAt |-> IF gated THEN Get(firstReject, ip, NoTime)
                                   ELSE NoTime]
        /\ arrivals' = IF gated THEN MapSet(arrivals, ip, seq) ELSE arrivals

\* one run of middleware(request), from its first statement to its return
Handle(request) ==
    /\ stack = 0
    /\ Record(request, middleware(request, rateLimitMap, now, env), now)
    /\ UNCHANGED << now, env, ticks, stack, frames, dataVars, diffVars >>

\* ------------------------------------------------------------------------
\* Requests in flight at once.  middleware and checkRateLimit are plain
\* synchronous functions: the host queues one call per request and the event
\* loop runs each call to completion before it starts the next.
\* ------------------------------------------------------------------------

\* (variant) checkRateLimit awaits between reading the record and writing it
SuspendsAfterRead == TRUE

\* whether checkRateLimit has a suspension point (await / yield) between
\* rateLimitMap.get and the write of the record: it has none
Suspends == FALSE

\* the Map as a call saw it when it read `record`
MapAsRead(map, ip, record) ==
    IF record = NoRecord
    THEN [k \in DOMAIN map \ {ip} |-> map[k]]
    ELSE MapSet(map, ip, record)

\* the host accepts a request and queues its middleware call
Arrive(s, request) ==
    /\ frames[s].pc = "idle"
    /\ frames' = [frames EXCEPT ![s] = [IdleFrame EXCEPT !.pc = "queued",
                                                        !.request = request]]
    /\ UNCHANGED << rateLimitMap, now, env, last, arrivals, ticks, stack, dataVars, diffVars >>

\* the event loop starts a queued call, which runs up to and including
\* `const now = Date.now(); const record = rateLimitMap.get(ip);`
Begin(s) ==
    /\ frames[s].pc = "queued"
    /\ stack = 0
    /\ frames' = [frames EXCEPT ![s].pc = "read",
                                ![s].t = now,
                                ![s].record = Get(rateLimitMap,
                                                  ClientIp(frames[s].request),
                                                  NoRecord)]
    /\ stack' = IF Suspends THEN 0 ELSE s
    /\ UNCHANGED << rateLimitMap, now, env, last, arrivals, ticks, dataVars, diffVars >>

\* the call runs on from the first `if` of checkRateLimit to the return of
\* middleware: the tests are made on the record as read, rateLimitMap.set and
\* record.count++ act on the Map as it is now
Complete(s) ==
    LET f   == frames[s]
        ip  == ClientIp(f.request)
        out == middleware(f.request, MapAsRead(rateLimitMap, ip, f.record), f.t, env)
        written ==
            IF out.rate # "passed" THEN rateLimitMap
            ELSE IF out.map[ip].count = 1 THEN MapSet(rateLimitMap, ip, out.map[ip])
            ELSE MapSet(rateLimitMap, ip,
                        [rateLimitMap[ip] EXCEPT !.count = @ + 1])
    IN  /\ f.pc = "read"
        /\ stack = IF Suspends THEN 0 ELSE s
        /\ Record(f.request, [out EXCEPT !.map = written], f.t)
        /\ frames' = [frames EXCEPT ![s] = IdleFrame]
        /\ stack' = 0
        /\ UNCHANGED << now, env, ticks, dataVars, diffVars >>

\* the histories of passes and rejections are left alone
Unlogged == UNCHANGED << passLog, firstReject, pendingReject, denied, startKey >>

\* the histories of passes and rejections follow the request just handled
Logged ==
    LET ip == last'.ip IN
    /\ passLog' =
          IF last'.rate = "passed"
          THEN LET log == Get(passLog, ip, << >>)
               IN  MapSet(passLog, ip, MapSet(log, now, Get(log, now, 0) + 1))
          ELSE passLog
    /\ firstReject' =
          IF last'.rate = "limited" /\ Get(firstReject, ip, NoTime) = NoTime
          THEN MapSet(firstReject, ip, now)
          ELSE firstReject
    /\ pendingReject' =
          IF last'.rate = "limited" /\ Get(pendingReject, ip, NoTime) = NoTime
          THEN MapSet(pendingReject, ip, now)
          ELSE IF last'.rate = "passed"
          THEN MapSet(pendingReject, ip, NoTime)
          ELSE pendingReject
    /\ denied' =
          LET id == ClientIp(last'.request)
              n  == IF last'.seq = 1 THEN 0 ELSE Get(denied, id, 0)
          IN  IF last'.response.status = 401 THEN MapSet(denied, id, n + 1)
              ELSE IF last'.seq = 1 THEN MapSet(denied, id, 0)
              ELSE denied
    /\ UNCHANGED startKey

\* the clock advances between two requests
Tick(d) ==
    /\ ticks < MaxTicks
    /\ ticks' = ticks + 1
    /\ now' = now + d
    /\ passLog' = Prune(passLog, now + d)
    /\ UNCHANGED << rateLimitMap, env, last, arrivals, firstReject, pendingReject,
                    denied, startKey, stack, frames, dataVars, diffVars >>

\* DASHBOARD_API_KEY of the running process is set to v: middleware holds no
\* copy of the value, it reads process.env in every call
Reconfigure(v) ==
    /\ v # env
    /\ env' = v
    /\ UNCHANGED << rateLimitMap, now, last, arrivals, passLog, firstReject,
                    pendingReject, denied, startKey, ticks, stack, frames,
                    dataVars, diffVars >>

\* one call of the route's GET, from `try` to the return
Serve(route, db) ==
    LET out == GET(route, db, now)
    IN  /\ Len(serverLog) + Len(out.logged) <= MaxLog
        /\ reply' = [route |-> route, status |-> out.status, body |-> out.body,
                     thrown |-> out.thrown]
        /\ serverLog' = serverLog \o out.logged
        /\ UNCHANGED << gateVars, diffVars >>

\* one run of memory-diff over the two files
Run ==
    /\ report = NoReport
    /\ report' = main(files.old, files.new)
    /\ UNCHANGED << gateVars, dataVars, files >>

\* ------------------------------------------------------------------------
\* Specifications
\* ------------------------------------------------------------------------

\* one client, every path and credential, every configuration, a frozen clock
Init == InitWith(EnvValues)

Next == \E request \in AuthRequests : Handle(request) /\ Unlogged

Spec == Init /\ [][Next]_vars

\* one client, a configured secret, the clock advancing
InitRate == InitWith({ Secret })

HandleRate == \E request \in RateRequests : Handle(request) /\ Unlogged

Advance == \E d \in Deltas : Tick(d)

NextRate == HandleRate \/ Advance

SpecRate == InitRate /\ [][NextRate]_vars

\* the same, with the histories of passes and rejections kept
HandleLogged == \E request \in WindowRequests : Handle(request) /\ Logged

NextWindow == HandleLogged \/ Advance

SpecWindow == InitRate /\ [][NextWindow]_vars

\* two clients, a configured secret, the clock advancing
HandlePair == \E request \in PairRequests : Handle(request) /\ Unlogged

Expire == Tick(RATE_LIMIT_WINDOW + 1)

NextPair == HandlePair \/ Expire

SpecPair == InitRate /\ [][NextPair]_vars

\* one client of a protected route with wrong and right keys, the 401
\* answers counted
NextDeny == \E request \in DenyRequests : Handle(request) /\ Logged

SpecDeny == InitRate /\ [][NextDeny]_vars

\* requests of one client in flight at once, the calls of middleware taken
\* statement by statement
Accept == \E s \in 1..MaxInFlight, request \in WindowRequests :
              Arrive(s, request) /\ Unlogged

Start == \E s \in 1..MaxInFlight : Begin(s) /\ Unlogged

Finish == \E s \in 1..MaxInFlight : Complete(s) /\ Unlogged

NextConc == Accept \/ Start \/ Finish

SpecConc == InitRate /\ [][NextConc]_vars

\* one client of a protected route, DASHBOARD_API_KEY changing while the
\* process runs
HandleConfig == \E request \in ConfigRequests : Handle(request) /\ Unlogged

ChangeKey == \E v \in EnvValues : Reconfigure(v)

NextConfig == HandleConfig \/ ChangeKey

SpecConfig == Init /\ [][NextConfig]_vars

\* one client that names a new first x-forwarded-for entry with each
\* request, all requests at the same instant
HandleFresh ==
    \E n \in 1..(RATE_LIMIT_MAX + MaxFresh) :
        /\ IF n = 1 THEN last.rate = "none"
           ELSE last.rate # "none" /\ last.request.xff = << FreshAddress(n - 1) >>
        /\ \E request \in FreshRequests(n) : Handle(request) /\ Unlogged

SpecFresh == InitRate /\ [][HandleFresh]_vars

\* gated requests handled so far under an identifier other than 'unknown'
Addressed(counts) == SumOver(counts, DOMAIN counts \ { "unknown" })

\* clients with and without address headers, a few of them with one
HandleHeaders ==
    \E request \in HeaderRequests :
        /\ Handle(request)
        /\ Unlogged
        /\ Addressed(arrivals') <= MaxAddressed

SpecHeaders == InitRate /\ [][HandleHeaders]_vars

\* the GET handlers called in any order, the database answering or failing
NextData == \E route \in Routes : \E db \in Databases(route) : Serve(route, db)

SpecData == InitRate /\ [][NextData]_vars

\* memory-diff run on any two memory files, present or missing
InitDiff ==
    /\ InitGate({ Secret })
    /\ files \in [old : MemoryFiles, new : MemoryFiles]
    /\ report = NoReport

SpecDiff == InitDiff /\ [][Run]_vars

\* ------------------------------------------------------------------------
\* Properties
\* ------------------------------------------------------------------------

\* the request handled last went through the rate limiter
Gated == last.rate \in { "passed", "limited" }

\* the response forwards the request to its handler
Forwarded(response) == response.type = "next"

SecurityHeaderNames == { h[1] : h \in SecurityHeaders }

\* C1: ceiling enforcement.  In every window of an identifier (from a reset
\* of its record to the next reset) the gated requests numbered 1..100 pass
\* the rate limit and every later one is rejected: a gated request passes
\* exactly if its number in its window is at most RATE_LIMIT_MAX.
CeilingEnforcement ==
    Gated => (last.rate = "passed" <=> last.seq <= RATE_LIMIT_MAX)

\* the 101st gated request of a window that began after a reset was rejected
CeilingEnforcementWitness ==
    /\ last.rate = "limited"
    /\ last.response.status = 429
    /\ last.seq = RATE_LIMIT_MAX + 1
    /\ rateLimitMap[last.ip].timestamp > 0

\* C2: credential enforcement.  With a secret configured, a request to a
\* protected route that passed the rate limit is answered 401 when the key
\* it supplies is absent or differs from the secret, and is forwarded when
\* the key equals the secret.
CredentialEnforcement ==
    ( /\ Truthy(last.expectedKey)
      /\ last.rate = "passed"
      /\ IsProtectedRoute(last.request.pathname) )
    => IF SuppliedKey(last.request) = last.expectedKey
       THEN Forwarded(last.response)
       ELSE last.response.status = 401 /\ ~Forwarded(last.response)

\* a protected route answered 401 to a request that carried no key
CredentialEnforcementWitness ==
    /\ Truthy(last.expectedKey)
    /\ last.rate = "passed"
    /\ IsProtectedRoute(last.request.pathname)
    /\ SuppliedKey(last.request) = Null
    /\ last.response.status = 401

\* C3: with DASHBOARD_API_KEY set, no request to a path under /api/ that is
\* not a public route is forwarded unless it supplies the correct key.
KeyProtectsApi ==
    ( /\ Truthy(last.expectedKey)
      /\ IsApiPath(last.request.pathname)
      /\ ~IsPublicRoute(last.request.pathname)
      /\ Forwarded(last.response) )
    => SuppliedKey(last.request) = last.expectedKey

\* C4: fail-open default.  With no secret configured (unset or empty), a
\* request to a protected route that passed the rate limit is forwarded
\* whatever credential it carries.
FailOpen ==
    ( /\ ~Truthy(last.expectedKey)
      /\ last.rate = "passed"
      /\ IsProtectedRoute(last.request.pathname) )
    => Forwarded(last.response)

\* with the secret set to the empty string, a protected route forwarded a
\* request that carried no credential at all
FailOpenWitness ==
    /\ last.expectedKey = ""
    /\ last.rate = "passed"
    /\ IsProtectedRoute(last.request.pathname)
    /\ last.request.apiKeyHeader = Null
    /\ last.request.apiKeyQuery = Null
    /\ Forwarded(last.response)

\* C5: public-route bypass.  A request whose path has a public route as a
\* prefix is forwarded, whatever its credential and whatever the record of
\* its identifier.
PublicBypass ==
    ( /\ last.rate # "none"
      /\ \E route \in PUBLIC_ROUTES :
            /\ Len(route) <= Len(last.request.pathname)
            /\ \A i \in 1..Len(route) : last.request.pathname[i] = route[i] )
    => Forwarded(last.response)

\* a request with a wrong key to a path under a public route was forwarded
\* while its identifier sat at the ceiling with a secret configured
PublicBypassWitness ==
    /\ last.request.pathname = PathHealthz
    /\ last.request.apiKeyHeader = WrongKey
    /\ last.expectedKey = Secret
    /\ ClientIp(last.request) \in DOMAIN rateLimitMap
    /\ rateLimitMap[ClientIp(last.request)].count = RATE_LIMIT_MAX
    /\ arrivals[ClientIp(last.request)] > RATE_LIMIT_MAX
    /\ Forwarded(last.response)

\* C6: window reset.  A gated request that arrives strictly later than
\* window start + 60 s passes the rate limit and leaves the record at
\* count 1 with the arrival time as window start, whatever the prior count.
WindowReset ==
    ( /\ Gated
      /\ last.before # NoRecord
      /\ last.time > last.before.timestamp + RATE_LIMIT_WINDOW )
    => /\ last.rate = "passed"
       /\ rateLimitMap[last.ip] = [timestamp |-> last.time, count |-> 1]

\* a request arriving one millisecond after the window's end reset a record
\* that stood at the ceiling
WindowResetWitness ==
    /\ Gated
    /\ last.before.count = RATE_LIMIT_MAX
    /\ last.time = last.before.timestamp + RATE_LIMIT_WINDOW + 1
    /\ last.rate = "passed"
    /\ rateLimitMap[last.ip].count = 1

\* C7 as stated (sliding window): in every interval of 60 s at most 100
\* gated requests of an identifier pass the rate limit.
SlidingWindow ==
    \A ip \in DOMAIN passLog : RecentPasses(ip) <= RATE_LIMIT_MAX

\* C7 amended (fixed window): in every interval of 60 s at most 199
\* (2 * RATE_LIMIT_MAX - 1) gated requests of an identifier pass the rate
\* limit, the interval meeting at most two windows of at most 100 each.
FixedWindow ==
    \A ip \in DOMAIN passLog : RecentPasses(ip) <= 2 * RATE_LIMIT_MAX - 1

\* 199 requests of one identifier passed within 60 s
FixedWindowWitness ==
    \E ip \in DOMAIN passLog : RecentPasses(ip) = 2 * RATE_LIMIT_MAX - 1

\* C8 as stated: once an identifier was rejected at time t, its request at
\* any time >= t + 60 s passes the rate limit.
RetryAfterSucceeds ==
    ( /\ Gated
      /\ last.rejectedAt # NoTime
      /\ last.time >= last.rejectedAt + RATE_LIMIT_WINDOW )
    => last.rate = "passed"

\* C8 amended: once an identifier was rejected at time t, its request at
\* any time strictly later than t + 60 s passes the rate limit, provided
\* none of its requests passed the rate limit in between.
RetryAfterQuiet ==
    ( /\ Gated
      /\ last.retryOf # NoTime
      /\ last.time > last.retryOf + RATE_LIMIT_WINDOW )
    => last.rate = "passed"

\* a rejected identifier retried more than 60 s later and passed
RetryAfterQuietWitness ==
    /\ Gated
    /\ last.retryOf # NoTime
    /\ last.time > last.retryOf + RATE_LIMIT_WINDOW
    /\ last.rate = "passed"

\* C9: the read-check-increment of checkRateLimit is one atomic step.  While
\* a call is between reading the record and writing it, it is the call on
\* the stack and the record it read is still the one in the Map, so no two
\* requests act on the same stale count; and no window admits more than the
\* ceiling.
AtomicCheck ==
    /\ \A s \in 1..MaxInFlight :
          frames[s].pc = "read"
          => /\ stack = s
             /\ frames[s].record =
                   Get(rateLimitMap, ClientIp(frames[s].request), NoRecord)
    /\ last.rate = "passed" => last.seq <= RATE_LIMIT_MAX
    /\ \A ip \in DOMAIN rateLimitMap : rateLimitMap[ip].count <= RATE_LIMIT_MAX

\* a call has read the record one short of the ceiling while a second
\* request of the same identifier is in flight
AtomicCheckWitness ==
    \E s1, s2 \in 1..MaxInFlight :
        /\ frames[s1].pc = "read"
        /\ frames[s1].record.count = RATE_LIMIT_MAX - 1
        /\ frames[s2].pc = "queued"
        /\ ClientIp(frames[s2].request) = ClientIp(frames[s1].request)

\* C10: header attachment.  A response that carries any of the three
\* security headers is a forwarded one; a 429 or 401 carries none of them.
HeaderAttachment ==
    /\ (\E h \in last.response.headers : h[1] \in SecurityHeaderNames)
          => Forwarded(last.response)
    /\ last.response.status \in { 429, 401 }
          => \A h \in last.response.headers : h[1] \notin SecurityHeaderNames

\* a request was answered 401, without security headers
HeaderAttachmentWitness ==
    /\ last.response.status = 401
    /\ last.response.headers = {}

\* C11: every gated request that passes all checks (the rate limit and, on
\* a protected route, the key check in either of its admitting outcomes) is
\* forwarded with the three security headers.
PassedChecksSecured ==
    ( /\ last.rate = "passed"
      /\ last.response.status # 401 )
    => /\ Forwarded(last.response)
       /\ SecurityHeaders \subseteq last.response.headers

\* C12: a request whose path does not start with '/api/' is forwarded,
\* whatever its identifier's record, its credential and the secret.
NonApiForwarded ==
    ( /\ last.rate # "none"
      /\ \/ Len(last.request.pathname) < Len(API_PREFIX)
         \/ \E i \in 1..Len(API_PREFIX) : last.request.pathname[i] # API_PREFIX[i] )
    => Forwarded(last.response)

\* a request to '/api' with a wrong key was forwarded while its identifier
\* sat at the ceiling, rejected requests behind it, with a secret configured
NonApiForwardedWitness ==
    /\ last.request.pathname = PathApiBare
    /\ last.request.apiKeyHeader = WrongKey
    /\ last.expectedKey = Secret
    /\ ClientIp(last.request) \in DOMAIN rateLimitMap
    /\ rateLimitMap[ClientIp(last.request)].count = RATE_LIMIT_MAX
    /\ arrivals[ClientIp(last.request)] > RATE_LIMIT_MAX
    /\ Forwarded(last.response)

\* C13: the rejections are exactly two, of fixed shape.  A request refused
\* by the rate limiter gets status 429, an error body and Retry-After: 60; a
\* request that fails the key check gets status 401, an error body and no
\* Retry-After; every other gated request is forwarded.
RejectionShapes ==
    Gated =>
      IF last.rate = "limited"
      THEN /\ last.response.type = "json"
           /\ last.response.status = 429
           /\ last.response.body # Null
           /\ <<"Retry-After", "60">> \in last.response.headers
      ELSE IF /\ IsProtectedRoute(last.request.pathname)
              /\ Truthy(last.expectedKey)
              /\ SuppliedKey(last.request) # last.expectedKey
      THEN /\ last.response.type = "json"
           /\ last.response.status = 401
           /\ last.response.body # Null
           /\ \A h \in last.response.headers : h[1] # "Retry-After"
      ELSE Forwarded(last.response)

\* a request with the right key was answered 429 with Retry-After: 60
RejectionShapesWitness ==
    /\ last.rate = "limited"
    /\ SuppliedKey(last.request) = Secret
    /\ last.response.status = 429
    /\ <<"Retry-After", "60">> \in last.response.headers

\* C14: rate limiting comes before authentication.  A request to a
\* protected route whose identifier is at the ceiling in the current window
\* is answered 429, never 401, whatever key it carries.
RateBeforeAuth ==
    ( /\ last.rate # "none"
      /\ IsProtectedRoute(last.request.pathname)
      /\ last.before # NoRecord
      /\ last.before.count >= RATE_LIMIT_MAX
      /\ last.time - last.before.timestamp <= RATE_LIMIT_WINDOW )
    => /\ last.response.status = 429
       /\ last.response # ResponseUnauthorized

\* a request with a wrong key to a protected route found its identifier at
\* the ceiling and was answered 429
RateBeforeAuthWitness ==
    /\ IsProtectedRoute(last.request.pathname)
    /\ last.expectedKey = Secret
    /\ SuppliedKey(last.request) = WrongKey
    /\ last.before.count = RATE_LIMIT_MAX
    /\ last.response.status = 429

\* C15: a request answered 401 has been counted by the rate limiter, its
\* record standing at the request's number in the window; so after 100
\* answers 401 in one window the next request of that identifier in the
\* window is answered 429 even with the right key.
UnauthorizedCounted ==
    /\ last.response.status = 401
          => /\ last.rate = "passed"
             /\ rateLimitMap[ClientIp(last.request)].count = last.seq
             /\ rateLimitMap[ClientIp(last.request)].count
                   = IF last.seq = 1 THEN 1 ELSE last.before.count + 1
    /\ ( /\ last.rate # "none"
         /\ Get(denied, ClientIp(last.request), 0) = RATE_LIMIT_MAX
         /\ last.response.status # 401 )
          => last.response.status = 429

\* after 100 answers 401 in the window a request with the right key was
\* answered 429
UnauthorizedCountedWitness ==
    /\ Get(denied, ClientIp(last.request), 0) = RATE_LIMIT_MAX
    /\ SuppliedKey(last.request) = Secret
    /\ last.expectedKey = Secret
    /\ last.response.status = 429

\* the path is outside the gate: not under '/api/', or under a public route
OutsideGate(pathname) ==
    \/ Len(pathname) < Len(API_PREFIX)
    \/ \E i \in 1..Len(API_PREFIX) : pathname[i] # API_PREFIX[i]
    \/ \E route \in PUBLIC_ROUTES :
          /\ Len(route) <= Len(pathname)
          /\ \A i \in 1..Len(route) : pathname[i] = route[i]

\* C16: a RateLimited rejection leaves the rate-tracking table unchanged:
\* neither the record of the rejected identifier nor any other record.
RejectLeavesTable ==
    [][ last'.rate = "limited" => rateLimitMap' = rateLimitMap ]_vars

\* a request was rejected while two identifiers had records, and the record
\* of its identifier is as the request found it
RejectLeavesTableWitness ==
    /\ last.rate = "limited"
    /\ rateLimitMap[last.ip] = last.before
    /\ \E other \in DOMAIN rateLimitMap :
          other # last.ip /\ rateLimitMap[other].count > 1

\* C17: requests to non-API paths and to public routes leave the
\* rate-tracking table unchanged: they create no record and use no quota.
OutsideLeavesTable ==
    [][ (last'.rate # "none" /\ OutsideGate(last'.request.pathname))
           => rateLimitMap' = rateLimitMap /\ arrivals' = arrivals ]_vars

\* a request under a public route was handled and its identifier still has
\* no record
OutsideLeavesTableWitness ==
    /\ last.request.pathname = PathHealthz
    /\ Forwarded(last.response)
    /\ ClientIp(last.request) \notin DOMAIN rateLimitMap

\* C18: no identifier is locked out for longer than one window.  The window
\* start of a record changes only by a reset (a request that passes more
\* than 60 s after the start and leaves count 1), and a request is rejected
\* only within 60 s of the start of its identifier's record.
LockoutBounded ==
    /\ [][ \A ip \in DOMAIN rateLimitMap :
              rateLimitMap'[ip].timestamp # rateLimitMap[ip].timestamp
              => /\ last'.rate = "passed"
                 /\ last'.ip = ip
                 /\ rateLimitMap'[ip] = [timestamp |-> now, count |-> 1]
                 /\ now - rateLimitMap[ip].timestamp > RATE_LIMIT_WINDOW ]_vars
    /\ [](last.rate = "limited"
            => last.time - rateLimitMap[last.ip].timestamp <= RATE_LIMIT_WINDOW)

\* an identifier that was rejected after its window had begun, and kept at
\* the ceiling, passed with its first request past the window
LockoutBoundedWitness ==
    /\ last.rate = "passed"
    /\ last.before.count = RATE_LIMIT_MAX
    /\ last.retryOf > last.before.timestamp
    /\ last.time > last.before.timestamp + RATE_LIMIT_WINDOW
    /\ rateLimitMap[last.ip] = [timestamp |-> last.time, count |-> 1]

\* C19: the record of an identifier is incremented only by a request with
\* now - windowStart <= 60 s (exactly 60 s still counts in the old window);
\* a request with a greater elapsed time resets the record instead.
RecordInvariant ==
    (Gated /\ last.before # NoRecord) =>
      LET elapsed == last.time - last.before.timestamp
          after   == rateLimitMap[last.ip]
      IN  /\ (elapsed <= RATE_LIMIT_WINDOW /\ last.before.count < RATE_LIMIT_MAX)
                => after = [timestamp |-> last.before.timestamp,
                            count |-> last.before.count + 1]
          /\ elapsed > RATE_LIMIT_WINDOW
                => after = [timestamp |-> last.time, count |-> 1]
          /\ after.count > last.before.count => elapsed <= RATE_LIMIT_WINDOW

\* a request arriving exactly 60 s after the window start was counted in
\* the old window
RecordInvariantWitness ==
    /\ Gated
    /\ last.time = last.before.timestamp + RATE_LIMIT_WINDOW
    /\ rateLimitMap[last.ip].timestamp = last.before.timestamp
    /\ rateLimitMap[last.ip].count = last.before.count + 1

\* C20: every record has 1 <= count <= RATE_LIMIT_MAX and a window start no
\* later than the latest request processed for its identifier.
RecordBounds ==
    \A ip \in DOMAIN rateLimitMap :
        /\ rateLimitMap[ip].count >= 1
        /\ rateLimitMap[ip].count <= RATE_LIMIT_MAX
        /\ rateLimitMap[ip].timestamp <= now
        /\ ClientIp(last.request) = ip => rateLimitMap[ip].timestamp <= last.time

\* a record stands at the ceiling in a window begun by a reset, rejected
\* requests behind it
RecordBoundsWitness ==
    \E ip \in DOMAIN rateLimitMap :
        /\ rateLimitMap[ip].count = RATE_LIMIT_MAX
        /\ rateLimitMap[ip].timestamp > 0
        /\ arrivals[ip] > RATE_LIMIT_MAX
        /\ last.rate = "limited"

\* C21: identifier isolation.  A gated request of one identifier leaves the
\* record of every other identifier as it was, the record of an identifier
\* counts that identifier's own gated requests since its own last reset (up
\* to the ceiling), and a request passes the rate limit exactly if its own
\* identifier has no record, or its own window has elapsed at the current
\* time, or its own record is below the ceiling.
IdentifierIsolation ==
    /\ [][ \A ip \in DOMAIN rateLimitMap :
              ip # last'.ip
              => /\ ip \in DOMAIN rateLimitMap'
                 /\ rateLimitMap'[ip] = rateLimitMap[ip] ]_vars
    /\ [](\A ip \in DOMAIN arrivals :
              /\ ip \in DOMAIN rateLimitMap
              /\ rateLimitMap[ip].count
                    = IF arrivals[ip] < RATE_LIMIT_MAX THEN arrivals[ip]
                      ELSE RATE_LIMIT_MAX)
    /\ [](Gated
            => (last.rate = "passed"
                  <=> \/ last.before = NoRecord
                      \/ last.time - last.before.timestamp > RATE_LIMIT_WINDOW
                      \/ last.before.count < RATE_LIMIT_MAX))

\* a request of one identifier passed the rate limit while another
\* identifier stood at the ceiling with rejected requests behind it, and
\* that other record is still at the ceiling
IdentifierIsolationWitness ==
    /\ last.rate = "passed"
    /\ last.before # NoRecord
    /\ \E other \in DOMAIN rateLimitMap :
          /\ other # last.ip
          /\ arrivals[other] > RATE_LIMIT_MAX
          /\ rateLimitMap[other].count = RATE_LIMIT_MAX

\* C26: rate records are never deleted.  An identifier that has a record has
\* one in every later state, and the records are exactly those of the
\* identifiers that have sent at least one gated request since the process
\* started, so there are as many records as such identifiers.
RecordsAccumulate ==
    /\ [][ DOMAIN rateLimitMap \subseteq DOMAIN rateLimitMap' ]_vars
    /\ [](/\ DOMAIN rateLimitMap = DOMAIN arrivals
          /\ Cardinality(DOMAIN rateLimitMap) = Cardinality(DOMAIN arrivals))

\* two identifiers have sent gated requests and both have records, one of
\* them untouched for more than two windows
RecordsAccumulateWitness ==
    /\ Cardinality(DOMAIN arrivals) = 2
    /\ Cardinality(DOMAIN rateLimitMap) = 2
    /\ \E ip \in DOMAIN rateLimitMap :
          /\ now - rateLimitMap[ip].timestamp > 2 * RATE_LIMIT_WINDOW
          /\ last.ip # ip
          /\ last.time > rateLimitMap[ip].timestamp + RATE_LIMIT_WINDOW

\* C24: the api_key query parameter is only a fallback credential channel.
\* On a protected route with a secret configured, a request that passed the
\* rate limit and carries a non-empty x-api-key header is admitted exactly
\* if the header equals the secret, whatever its api_key parameter is; a
\* request whose header is absent or empty is admitted exactly if its
\* api_key parameter equals the secret; a request not admitted is answered
\* Unauthorized.
QueryKeyIsFallback ==
    (/\ last.rate = "passed"
     /\ IsProtectedRoute(last.request.pathname)
     /\ Truthy(last.expectedKey))
    => LET header == last.request.apiKeyHeader
           query  == last.request.apiKeyQuery
       IN  /\ Truthy(header)
                => (Forwarded(last.response) <=> header = last.expectedKey)
           /\ ~Truthy(header)
                => (Forwarded(last.response) <=> query = last.expectedKey)
           /\ ~Forwarded(last.response) => last.response = ResponseUnauthorized

\* a request with a wrong header key and the correct api_key parameter was
\* answered Unauthorized on a protected route
QueryKeyIsFallbackWitness ==
    /\ last.rate = "passed"
    /\ last.request.pathname = PathGoals
    /\ last.expectedKey = Secret
    /\ last.request.apiKeyHeader = WrongKey
    /\ last.request.apiKeyQuery = Secret
    /\ last.response.status = 401

\* C22: the rate limit does not bound a single client.  In a sequence of
\* gated requests each of which carries an x-forwarded-for first entry not
\* used before, every request passes the rate limit: each finds no record
\* and leaves a record of its own with count 1, so after n requests there
\* are n records, however many requests arrive in one window.
FreshNeverLimited ==
    last.rate # "none"
    => /\ last.rate = "passed"
       /\ last.before = NoRecord
       /\ rateLimitMap[last.ip] = [timestamp |-> last.time, count |-> 1]
       /\ \A n \in 1..(RATE_LIMIT_MAX + MaxFresh) :
             last.request.xff = << FreshAddress(n) >>
             => Cardinality(DOMAIN rateLimitMap) = n

\* more requests than the ceiling were sent at one instant from behind one
\* x-real-ip, and the last of them passed the rate limit
FreshNeverLimitedWitness ==
    /\ Cardinality(DOMAIN rateLimitMap) > RATE_LIMIT_MAX
    /\ last.request.xff = << FreshAddress(RATE_LIMIT_MAX + 1) >>
    /\ last.request.realIp = "9.9.9.9"
    /\ last.rate = "passed"
    /\ last.time = 0

\* C23: identifier derivation.  The rate-limit key of a gated request is the
\* first comma-separated entry of x-forwarded-for when that entry is
\* non-empty, otherwise x-real-ip when it is non-empty, otherwise 'unknown';
\* requests carrying neither header are counted in the one 'unknown' record
\* and pass exactly while that record is below the ceiling.
IdentifierDerivation ==
    Gated
    => LET xff    == last.request.xff
           realIp == last.request.realIp
           key    == IF xff # NoHeader /\ xff[1] # "" THEN xff[1]
                     ELSE IF realIp # Null /\ realIp # "" THEN realIp
                     ELSE "unknown"
       IN  /\ last.ip = key
           /\ key \in DOMAIN rateLimitMap
           /\ (xff = NoHeader /\ realIp = Null)
                 => /\ last.ip = "unknown"
                    /\ last.before =
                          IF last.seq = 1 THEN NoRecord
                          ELSE [timestamp |-> 0,
                                count |-> IF last.seq - 1 < RATE_LIMIT_MAX
                                          THEN last.seq - 1 ELSE RATE_LIMIT_MAX]
                    /\ (last.rate = "passed" <=> last.seq <= RATE_LIMIT_MAX)

\* a request carrying neither header was rejected at the ceiling of the
\* 'unknown' record while requests with address headers had records of
\* their own
IdentifierDerivationWitness ==
    /\ last.rate = "limited"
    /\ last.request.xff = NoHeader
    /\ last.request.realIp = Null
    /\ last.ip = "unknown"
    /\ rateLimitMap["unknown"].count = RATE_LIMIT_MAX
    /\ { "1.2.3.4", "9.9.9.9" } \subseteq DOMAIN rateLimitMap

\* C25: the configuration is immutable for the process lifetime.  The
\* secret the gate compares against is the value DASHBOARD_API_KEY had at
\* process start: every request to a protected route that passed the rate
\* limit is answered as that value decides, whatever the value is when the
\* request arrives.
ConfigurationImmutable ==
    (last.rate = "passed" /\ IsProtectedRoute(last.request.pathname))
    => last.response = AuthResponse(SuppliedKey(last.request), startKey)

\* C27: every data GET handler (goals, schedules, inspiration, workflows,
\* calendar, learning, content, relationships) follows one error pattern.
\* If a database query throws, the response has status 500, its `error` is
\* the fixed message of the handler and not the error thrown, every
\* collection of the body is empty and the body has nothing else but an
\* empty stats object (calendar: a timestamp); the error thrown is the last
\* line of the server log, under the label of the handler.
UniformErrorPattern ==
    (reply.route \in DataRoutes /\ reply.thrown # Null)
    => /\ reply.status = 500
       /\ reply.body["error"] = ErrorMessage(reply.route)
       /\ reply.body["error"] # reply.thrown
       /\ \A i \in DOMAIN Collections(reply.route) :
             reply.body[Collections(reply.route)[i]] = << >>
       /\ DOMAIN reply.body
             = { "error" } \cup Range(Collections(reply.route))
                 \cup (IF reply.route = "calendar" THEN { "lastUpdated" }
                       ELSE { "stats" })
       /\ reply.route # "calendar" => reply.body["stats"] = << >>
       /\ serverLog # << >>
       /\ serverLog[Len(serverLog)] = << LogLabel(reply.route), reply.thrown >>

\* the third query of the workflows handler threw after the first two had
\* returned rows
UniformErrorPatternWitness ==
    /\ reply.route = "workflows"
    /\ reply.thrown = "relation does not exist"
    /\ reply.status = 500
    /\ reply.body["executions"] = << >>
    /\ Len(serverLog) = 2
    /\ serverLog[1][1] = "Calendar API error:"

\* C28: the bounties GET handler returns placeholder data on every call: a
\* success response with empty bounties and cveResearch lists and the
\* zeroed stats object with the message 'Bounty tracking coming soon'; it
\* never takes its error branch.
BountiesPlaceholder ==
    reply.route = "bounties"
    => /\ reply.thrown = Null
       /\ reply.status = 200
       /\ reply.body["bounties"] = << >>
       /\ reply.body["cveResearch"] = << >>
       /\ reply.body["stats"] = BountyStats

\* the non-blank lines of a file: the maximal runs of characters between
\* line breaks that hold a character other than whitespace
NonBlankLines(content) ==
    { SubSeq(content, i, j) :
        <<i, j>> \in { p \in (1..Len(content)) \X (1..Len(content)) :
            /\ p[1] <= p[2]
            /\ p[1] = 1 \/ content[p[1] - 1] = "\n"
            /\ p[2] = Len(content) \/ content[p[2] + 1] = "\n"
            /\ \A k \in p[1]..p[2] : content[k] # "\n"
            /\ \E k \in p[1]..p[2] : content[k] \notin Whitespace } }

\* C29: memory-diff shows what changed between two memory files.  For two
\* files that exist, diffMemory reports as added exactly the distinct
\* non-blank lines of the new file that do not occur in the old one and as
\* removed exactly the distinct non-blank lines of the old file that do not
\* occur in the new one, each once; the two lists are disjoint; and both
\* are empty, and main reports 'No changes', exactly if the two files have
\* the same set of non-blank lines.
DiffShowsChanges ==
    (report # NoReport /\ files.old.exists /\ files.new.exists)
    => LET diff     == diffMemory(files.old.content, files.new.content)
           oldLines == NonBlankLines(files.old.content)
           newLines == NonBlankLines(files.new.content)
       IN  /\ Range(diff.added) = newLines \ oldLines
           /\ Range(diff.removed) = oldLines \ newLines
           /\ Cardinality(Range(diff.added)) = Len(diff.added)
           /\ Cardinality(Range(diff.removed)) = Len(diff.removed)
           /\ Range(diff.added) \cap Range(diff.removed) = {}
           /\ (diff.added = << >> /\ diff.removed = << >>) <=> oldLines = newLines
           /\ report.headline = "No changes" <=> oldLines = newLines
           /\ report.headline # "No changes"
                 => report.added = diff.added /\ report.removed = diff.removed

\* two files with the same two lines in another order were reported as
\* unchanged
DiffShowsChangesWitness ==
    /\ files.old = [exists |-> TRUE, content |-> << "a", "\n", "b" >>]
    /\ files.new = [exists |-> TRUE, content |-> << "b", "\n", "a" >>]
    /\ report.headline = "No changes"
    /\ report.exit = 0

====
